---------------------------- MODULE Spec2Model ----------------------------
(***************************************************************************)
(* A model of scripts/process_enrollment.py: the classifier                *)
(* (identify_plan_type, get_parent_org), the schema normalizer and the     *)
(* enrollment coercion of process_csv, aggregate_enrollment,               *)
(* calculate_changes and the file-writing sequence of main.                *)
(*                                                                         *)
(* Text is modelled by TLA+ strings; TLC evaluates Len, SubSeq and \o on   *)
(* them, so slicing, searching and case folding are computed character by  *)
(* character.  A missing cell of a pandas table (float NaN) is the string  *)
(* NaN: read_csv turns the text "NaN" itself into a missing cell, so no    *)
(* cell can hold it as text.                                               *)
(***************************************************************************)
EXTENDS Integers, Sequences, FiniteSets, TLC

VARIABLES
    pc,               \* position of the run (or of the function call)
    call,             \* arguments of the function under study (function specs)
    ret,              \* its result
    args,             \* command line of the run: [save_december]
    csv,              \* the table read_csv returned: [columns, rows]
    contract_info,    \* the contract-info table, or NoFile
    df,               \* the DataFrame of process_csv / aggregate_enrollment
    enrollment_data,  \* the Snapshot aggregate_enrollment returned
    december_data,    \* the baseline Snapshot loaded from the store
    changes,          \* the ChangeSet calculate_changes returned
    error,            \* the exception that ended the run, or NoError
    files,            \* the output directory: file name -> content or NoFile
    files0            \* the output directory when the run started

vars == <<pc, call, ret, args, csv, contract_info, df, enrollment_data,
          december_data, changes, error, files, files0>>

-----------------------------------------------------------------------------
(* Values that stand for "nothing". *)

NaN == "NaN"
NoFile == [absent |-> TRUE]
NoData == [nodata |-> TRUE]
NoError == [kind |-> "none"]
NoCall == [fn |-> "none"]

-----------------------------------------------------------------------------
(* Python str operations. *)

Ascii == "()*+,-./0123456789ABCDEFGHIJKLMNOPQRSTUVWXYZ_abcdefghijklmnopqrstuvwxyz"
UpperLetters == "ABCDEFGHIJKLMNOPQRSTUVWXYZ"
LowerLetters == "abcdefghijklmnopqrstuvwxyz"
Digits == "0123456789"

CharAt(s, i) == SubSeq(s, i, i)

\* position of character c in text t, 0 when absent
IndexIn(t, c) ==
    IF \E i \in 1..Len(t) : CharAt(t, i) = c
    THEN CHOOSE i \in 1..Len(t) : CharAt(t, i) = c
    ELSE 0

\* the characters the model uses
Chars == {CharAt(Ascii, i) : i \in 1..Len(Ascii)} \cup {" "}

\* code point order of the characters (a space sorts first)
OrdOf == [c \in Chars |-> IF c = " " THEN 0 ELSE IndexIn(Ascii, c)]

LowerOf ==
    [c \in Chars |-> IF IndexIn(UpperLetters, c) > 0
                     THEN CharAt(LowerLetters, IndexIn(UpperLetters, c)) ELSE c]

UpperOf ==
    [c \in Chars |-> IF IndexIn(LowerLetters, c) > 0
                     THEN CharAt(UpperLetters, IndexIn(LowerLetters, c)) ELSE c]

Ord(c) == OrdOf[c]
LowerChar(c) == LowerOf[c]
UpperChar(c) == UpperOf[c]

RECURSIVE MapChars(_, _, _)
\* s with every character c replaced by f[c], from position i on
MapChars(f, s, i) ==
    IF i > Len(s) THEN "" ELSE f[CharAt(s, i)] \o MapChars(f, s, i + 1)

StrLower(s) == MapChars(LowerOf, s, 1)
StrUpper(s) == MapChars(UpperOf, s, 1)

\* s.replace(a, b) for a single character a and a text b (possibly empty)
StrReplace(s, a, b) == MapChars([c \in Chars |-> IF c = a THEN b ELSE c], s, 1)

RECURSIVE StrStrip(_)
\* s.strip() for the blank
StrStrip(s) ==
    IF Len(s) = 0 THEN s
    ELSE IF CharAt(s, 1) = " " THEN StrStrip(SubSeq(s, 2, Len(s)))
    ELSE IF CharAt(s, Len(s)) = " " THEN StrStrip(SubSeq(s, 1, Len(s) - 1))
    ELSE s

\* sub in s
StrContains(s, sub) ==
    \E i \in 0..(Len(s) - Len(sub)) : SubSeq(s, i + 1, i + Len(sub)) = sub

RECURSIVE StrLessFrom(_, _, _)
StrLessFrom(a, b, i) ==
    IF i > Len(b) THEN FALSE
    ELSE IF i > Len(a) THEN TRUE
    ELSE IF CharAt(a, i) = CharAt(b, i) THEN StrLessFrom(a, b, i + 1)
    ELSE Ord(CharAt(a, i)) < Ord(CharAt(b, i))

\* a < b, the order pandas sorts group keys and modes by
StrLess(a, b) == StrLessFrom(a, b, 1)

\* bool(x) of a str or a missing value: NaN is a non-zero float, hence true
Truthy(x) == x # ""

-----------------------------------------------------------------------------
(* identify_plan_type *)

PlanTypes == {"HMO", "PPO", "DSNP", "Other"}

dsnp_keywords == <<"dsnp", "dual", "d-snp", "dual eligible", "dual-eligible">>

\* the outcome of a call: a value, or the exception it raised
Returned(v) == [ok |-> TRUE, value |-> v]
Raised(e) == [ok |-> FALSE, value |-> e]

\* (x or "").lower(): a missing value is a float, which has no lower()
OrEmptyLower(x) ==
    IF x = NaN THEN Raised("AttributeError") ELSE Returned(StrLower(x))

identify_plan_type_flipped(contract_id, plan_name, org_type) ==
    LET plan_name_lower == OrEmptyLower(plan_name)
        org_type_lower == OrEmptyLower(org_type)
        prefix == UpperChar(CharAt(contract_id, 1))
    IN  IF contract_id # NaN /\ ~plan_name_lower.ok THEN plan_name_lower
        ELSE IF contract_id # NaN /\ ~org_type_lower.ok THEN org_type_lower
        ELSE IF contract_id # NaN
                /\ \E k \in 1..Len(dsnp_keywords) :
                      \/ StrContains(plan_name_lower.value, dsnp_keywords[k])
                      \/ StrContains(org_type_lower.value, dsnp_keywords[k])
             THEN Returned("DSNP")
        ELSE IF ~Truthy(contract_id) THEN Returned("Other")
        ELSE IF contract_id = NaN THEN Raised("TypeError")
        ELSE IF prefix = "H"
             THEN IF StrContains(plan_name_lower.value, "ppo")
                  THEN Returned("PPO") ELSE Returned("HMO")
        ELSE IF prefix = "R" THEN Returned("PPO")
        ELSE Returned("Other")

identify_plan_type(contract_id, plan_name, org_type) ==
    LET plan_name_lower == OrEmptyLower(plan_name)
        org_type_lower == OrEmptyLower(org_type)
        prefix == UpperChar(CharAt(contract_id, 1))
    IN  IF ~Truthy(contract_id) THEN Returned("Other")
        \* contract_id[0] of a float
        ELSE IF contract_id = NaN THEN Raised("TypeError")
        ELSE IF ~plan_name_lower.ok THEN plan_name_lower
        ELSE IF ~org_type_lower.ok THEN org_type_lower
        ELSE IF \E k \in 1..Len(dsnp_keywords) :
                   \/ StrContains(plan_name_lower.value, dsnp_keywords[k])
                   \/ StrContains(org_type_lower.value, dsnp_keywords[k])
             THEN Returned("DSNP")
        ELSE IF prefix = "H"
             THEN IF StrContains(plan_name_lower.value, "ppo")
                  THEN Returned("PPO") ELSE Returned("HMO")
        ELSE IF prefix = "R" THEN Returned("PPO")
        ELSE Returned("Other")

-----------------------------------------------------------------------------
(* Dictionaries and table columns. *)

\* a dict that keeps the first pair of each key
DictFromPairs_first(pairs) ==
    [k \in {pairs[i][1] : i \in 1..Len(pairs)} |->
        pairs[CHOOSE i \in 1..Len(pairs) :
                /\ pairs[i][1] = k
                /\ \A j \in 1..(i - 1) : pairs[j][1] # k][2]]

\* a dict literal or a dict filled pair by pair: a later pair with the same
\* key replaces the earlier one
DictFromPairs(pairs) ==
    [k \in {pairs[i][1] : i \in 1..Len(pairs)} |->
        pairs[CHOOSE i \in 1..Len(pairs) :
                /\ pairs[i][1] = k
                /\ \A j \in (i + 1)..Len(pairs) : pairs[j][1] # k][2]]

HasColumn(columns, c) == \E i \in 1..Len(columns) : columns[i] = c

ColIndex(columns, c) ==
    CHOOSE i \in 1..Len(columns) :
        columns[i] = c /\ \A j \in 1..(i - 1) : columns[j] # c

\* the first entry of candidates that is a column, "" when none is
FirstPresent(candidates, columns) ==
    IF \E i \in 1..Len(candidates) : HasColumn(columns, candidates[i])
    THEN candidates[CHOOSE i \in 1..Len(candidates) :
                       /\ HasColumn(columns, candidates[i])
                       /\ \A j \in 1..(i - 1) : ~HasColumn(columns, candidates[j])]
    ELSE ""

\* df.columns.str.strip().str.lower().str.replace(' ', '_')
StandardizeColumns(columns) ==
    [i \in 1..Len(columns) |-> StrReplace(StrLower(StrStrip(columns[i])), " ", "_")]

\* r.get(c, default) of a row: the cell, or the default when the table has no column c
RowGet(columns, row, c, default) ==
    IF HasColumn(columns, c) THEN row[ColIndex(columns, c)] ELSE default

-----------------------------------------------------------------------------
(* get_parent_org and the contract-info lookup. *)

PARENT_ORG_ENTRIES == <<
    <<"H0028", "UnitedHealth Group">>, <<"H0543", "UnitedHealth Group">>,
    <<"H0754", "UnitedHealth Group">>, <<"H1045", "UnitedHealth Group">>,
    <<"H1685", "UnitedHealth Group">>, <<"H2001", "UnitedHealth Group">>,
    <<"H2168", "UnitedHealth Group">>, <<"H2406", "UnitedHealth Group">>,
    <<"H3749", "UnitedHealth Group">>, <<"H4091", "UnitedHealth Group">>,
    <<"H5253", "UnitedHealth Group">>, <<"H5521", "UnitedHealth Group">>,
    <<"H6501", "UnitedHealth Group">>, <<"H7657", "UnitedHealth Group">>,
    <<"R5826", "UnitedHealth Group">>, <<"H0112", "CVS Health (Aetna)">>,
    <<"H0318", "CVS Health (Aetna)">>, <<"H0485", "CVS Health (Aetna)">>,
    <<"H0533", "CVS Health (Aetna)">>, <<"H1609", "CVS Health (Aetna)">>,
    <<"H2478", "CVS Health (Aetna)">>, <<"H3152", "CVS Health (Aetna)">>,
    <<"H3312", "CVS Health (Aetna)">>, <<"H3597", "CVS Health (Aetna)">>,
    <<"H4002", "CVS Health (Aetna)">>, <<"H4448", "CVS Health (Aetna)">>,
    <<"H5521", "CVS Health (Aetna)">>, <<"H9851", "CVS Health (Aetna)">>,
    <<"H0028", "Humana">>, <<"H1036", "Humana">>, <<"H1406", "Humana">>,
    <<"H1951", "Humana">>, <<"H2649", "Humana">>, <<"H4141", "Humana">>,
    <<"H4461", "Humana">>, <<"H5216", "Humana">>, <<"H5619", "Humana">>,
    <<"H6622", "Humana">>, <<"H7495", "Humana">>, <<"H8145", "Humana">>,
    <<"R5826", "Humana">>, <<"H0146", "Elevance Health (Anthem)">>,
    <<"H0354", "Elevance Health (Anthem)">>, <<"H0540", "Elevance Health (Anthem)">>,
    <<"H2006", "Elevance Health (Anthem)">>, <<"H3655", "Elevance Health (Anthem)">>,
    <<"H3905", "Elevance Health (Anthem)">>, <<"H4624", "Elevance Health (Anthem)">>,
    <<"H5853", "Elevance Health (Anthem)">>, <<"H9019", "Elevance Health (Anthem)">>,
    <<"H0169", "Centene">>, <<"H1485", "Centene">>, <<"H2712", "Centene">>,
    <<"H3447", "Centene">>, <<"H4007", "Centene">>, <<"H5427", "Centene">>,
    <<"H6832", "Centene">>, <<"H0524", "Kaiser Permanente">>,
    <<"H0630", "Kaiser Permanente">>, <<"H2172", "Kaiser Permanente">>,
    <<"H9003", "Kaiser Permanente">>, <<"H0107", "Cigna">>, <<"H0354", "Cigna">>,
    <<"H4513", "Cigna">>, <<"H5410", "Cigna">>, <<"H6373", "Cigna">>,
    <<"H0169", "Molina Healthcare">>, <<"H0420", "Molina Healthcare">>,
    <<"H5823", "Molina Healthcare">>, <<"H9498", "Molina Healthcare">>,
    <<"H0404", "BCBS">>, <<"H0520", "BCBS">>, <<"H1350", "BCBS">>, <<"H2819", "BCBS">>,
    <<"H3949", "BCBS">>, <<"H5008", "BCBS">>, <<"H6502", "BCBS">>
    >>

PARENT_ORG_MAPPING == DictFromPairs(PARENT_ORG_ENTRIES)

org_keywords == <<
    <<"UnitedHealth Group", <<"united", "uhc", "optum", "pacificare">> >>,
    <<"CVS Health (Aetna)", <<"aetna", "cvs">> >>,
    <<"Humana", <<"humana">> >>,
    <<"Elevance Health (Anthem)", <<"anthem", "wellpoint", "elevance">> >>,
    <<"Centene", <<"centene", "wellcare", "health net">> >>,
    <<"Kaiser Permanente", <<"kaiser">> >>,
    <<"Cigna", <<"cigna">> >>,
    <<"Molina Healthcare", <<"molina">> >>,
    <<"BCBS", <<"blue cross", "blue shield", "bcbs", "anthem">> >>
    >>

OrgMatches(k, org_name_lower) ==
    \E j \in 1..Len(org_keywords[k][2]) : StrContains(org_name_lower, org_keywords[k][2][j])

\* called with a str contract_id only (get_org filters the missing ones)
get_parent_org(contract_id, org_name) ==
    LET contract_base == IF Len(contract_id) >= 5 THEN SubSeq(contract_id, 1, 5)
                         ELSE contract_id
        org_name_lower == StrLower(org_name)
    IN  IF ~Truthy(contract_id) THEN "Other"
        ELSE IF contract_base \in DOMAIN PARENT_ORG_MAPPING
             THEN PARENT_ORG_MAPPING[contract_base]
        ELSE IF \E k \in 1..Len(org_keywords) : OrgMatches(k, org_name_lower)
             THEN org_keywords[CHOOSE k \in 1..Len(org_keywords) :
                                  /\ OrgMatches(k, org_name_lower)
                                  /\ \A j \in 1..(k - 1) : ~OrgMatches(j, org_name_lower)][1]
        ELSE "Other"

\* the dict load_contract_info returns for the contract-info table (or for none)
load_contract_info(info) ==
    IF info = NoFile THEN <<>>
    ELSE LET columns == StandardizeColumns(info.columns)
             parent_col == FirstPresent(<<"parent_organization", "parent_org",
                                          "organization", "organization_name">>, columns)
             contract_col == FirstPresent(<<"contract_number", "contract_id",
                                            "contractid">>, columns)
             Pair(i) == <<info.rows[i][ColIndex(columns, contract_col)],
                          info.rows[i][ColIndex(columns, parent_col)]>>
             kept == SelectSeq([i \in 1..Len(info.rows) |-> Pair(i)],
                               LAMBDA p : p[1] # NaN /\ p[2] # NaN)
         IN  IF parent_col # "" /\ contract_col # "" THEN DictFromPairs(kept) ELSE <<>>

\* get_org with the static prefix map consulted before the contract-info dict
get_org_static_first(contract, contract_to_org) ==
    IF contract = NaN THEN "Other"
    ELSE IF get_parent_org(contract, "") # "Other" THEN get_parent_org(contract, "")
    ELSE IF contract \in DOMAIN contract_to_org THEN contract_to_org[contract]
    ELSE "Other"

\* process_csv.get_org
get_org(contract, contract_to_org) ==
    IF contract = NaN THEN "Other"
    ELSE IF contract \in DOMAIN contract_to_org THEN contract_to_org[contract]
    ELSE get_parent_org(contract, "")

-----------------------------------------------------------------------------
(* The enrollment coercion of process_csv. *)

AllIn(s, alphabet) == \A i \in 1..Len(s) : IndexIn(alphabet, CharAt(s, i)) > 0

RECURSIVE IntOf(_)
\* the value of a text of decimal digits (0 for the empty text)
IntOf(s) ==
    IF Len(s) = 0 THEN 0
    ELSE 10 * IntOf(SubSeq(s, 1, Len(s) - 1)) + (IndexIn(Digits, CharAt(s, Len(s))) - 1)

\* the parse of pd.to_numeric for a text made of a sign, digits and a decimal
\* point: [ok, neg, int], the number being (-1)^neg * (int + fraction)
ParseNumber(t) ==
    LET signed == Len(t) > 0 /\ CharAt(t, 1) \in {"-", "+"}
        body == IF signed THEN SubSeq(t, 2, Len(t)) ELSE t
        dot == IndexIn(body, ".")
        intpart == IF dot = 0 THEN body ELSE SubSeq(body, 1, dot - 1)
        fracpart == IF dot = 0 THEN "" ELSE SubSeq(body, dot + 1, Len(body))
    IN  [ok |-> /\ AllIn(intpart, Digits) /\ AllIn(fracpart, Digits)
                /\ Len(intpart) + Len(fracpart) > 0,
         neg |-> signed /\ CharAt(t, 1) = "-",
         int |-> IF AllIn(intpart, Digits) THEN IntOf(intpart) ELSE 0]

\* str.replace(',', ''); pd.to_numeric(errors='coerce'); fillna(0); astype(int)
\* (astype(int) drops the fraction, towards zero).  The column read with
\* dtype=str has the object dtype, so the separators are removed.
CoerceEnrollment(cell) ==
    IF cell = NaN THEN 0
    ELSE LET n == ParseNumber(StrReplace(cell, ",", ""))
         IN  IF ~n.ok THEN 0 ELSE IF n.neg THEN 0 - n.int ELSE n.int

-----------------------------------------------------------------------------
(* process_csv: the schema normalizer, the coercion and the organization column. *)

column_mappings == <<
    <<"contract_number", <<"contract_number", "contractid", "contract_id", "h_number">> >>,
    <<"plan_id", <<"plan_id", "planid", "plan_number">> >>,
    <<"state", <<"state", "state_code", "bene_state">> >>,
    <<"county", <<"county", "county_name", "bene_county">> >>,
    <<"fips", <<"fips", "fips_code", "county_fips", "ssa_code", "fips_state_county_code">> >>,
    <<"enrollment", <<"enrollment", "total_enrollment", "enrolled", "member_count", "enrollees">> >>,
    <<"organization", <<"organization_name", "org_name", "organization", "plan_org_name",
                        "parent_organization">> >>,
    <<"plan_name", <<"plan_name", "plan_benefit_package_name", "pbp_name">> >>,
    <<"org_type", <<"organization_type", "org_type", "special_needs_plan_type">> >>
    >>

required == <<"contract_number", "state", "enrollment">>

\* the dict `renamed`: the first variation of each standard name that is a column
RenamedPairs(columns) ==
    SelectSeq([k \in 1..Len(column_mappings) |->
                  <<FirstPresent(column_mappings[k][2], columns), column_mappings[k][1]>>],
              LAMBDA p : p[1] # "")

\* df.rename(columns=renamed)
RenameColumns(columns) ==
    LET renamed == DictFromPairs(RenamedPairs(columns))
    IN  [i \in 1..Len(columns) |->
            IF columns[i] \in DOMAIN renamed THEN renamed[columns[i]] ELSE columns[i]]

\* the check that forgets the last required column
MissingRequired_short(columns) ==
    SelectSeq(SubSeq(required, 1, 2), LAMBDA c : ~HasColumn(columns, c))

\* the required columns the table lacks, in the order of `required`
MissingRequired(columns) == SelectSeq(required, LAMBDA c : ~HasColumn(columns, c))

process_csv(table, info) ==
    LET columns == RenameColumns(StandardizeColumns(table.columns))
        missing == MissingRequired(columns)
        e == ColIndex(columns, "enrollment")
        c == ColIndex(columns, "contract_number")
        coerced == [i \in 1..Len(table.rows) |->
                       [j \in 1..Len(columns) |->
                           IF j = e THEN CoerceEnrollment(table.rows[i][j])
                           ELSE table.rows[i][j]]]
        contract_to_org == load_contract_info(info)
    IN  IF missing # <<>>
        THEN Raised([kind |-> "ValueError", missing |-> missing])
        ELSE IF HasColumn(columns, "organization")
        THEN Returned([columns |-> columns, rows |-> coerced])
        ELSE Returned([columns |-> Append(columns, "organization"),
                       rows |-> [i \in 1..Len(coerced) |->
                                    Append(coerced[i], get_org(coerced[i][c], contract_to_org))]])

-----------------------------------------------------------------------------
(* aggregate_enrollment *)

RECURSIVE SumSet(_, _)
\* the sum of f[i] over the indices i of S
SumSet(S, f) ==
    IF S = {} THEN 0
    ELSE LET x == CHOOSE x \in S : TRUE IN f[x] + SumSet(S \ {x}, f)

\* the smallest text of a non-empty set
MinText(S) == CHOOSE a \in S : \A b \in S : a = b \/ StrLess(a, b)

\* x.mode().iloc[0] where the modes are taken in order of first occurrence
Mode_first_seen(values) ==
    LET Count(v) == Cardinality({i \in 1..Len(values) : values[i] = v})
        Most(i) == \A j \in 1..Len(values) : Count(values[j]) <= Count(values[i])
    IN  values[CHOOSE i \in 1..Len(values) : Most(i) /\ \A j \in 1..(i - 1) : ~Most(j)]

\* x.mode().iloc[0]: Series.mode returns the most frequent values sorted
Mode(values) ==
    LET Count(v) == Cardinality({i \in 1..Len(values) : values[i] = v})
        most == {values[i] : i \in {i \in 1..Len(values) :
                     \A j \in 1..Len(values) : Count(values[j]) <= Count(values[i])}}
    IN  MinText(most)

\* the values of the rows S in table order
InOrder(S, f) ==
    LET n == Cardinality(S)
        Nth(k) == CHOOSE i \in S : Cardinality({j \in S : j < i}) = k - 1
    IN  [k \in 1..n |-> f[Nth(k)]]

\* the value of the first row of the group, missing or not
FirstValid_first_row(S, f) == f[CHOOSE i \in S : \A j \in S : i <= j]

\* dropna().unique()[0] and GroupBy.first: the first value of the group that
\* is not missing, NaN when all are
FirstValid(S, f) ==
    IF \A i \in S : f[i] = NaN THEN NaN
    ELSE f[CHOOSE i \in S : f[i] # NaN /\ \A j \in S : j < i => f[j] = NaN]

\* group[by].sum().to_dict() over the rows S: rows with a missing key are dropped
GroupSum(S, key, enrollment) ==
    [k \in {key[i] : i \in {i \in S : key[i] # NaN}} |->
        SumSet({i \in S : key[i] = k}, enrollment)]

\* tuple order of the group keys
KeyLess(a, b) ==
    \/ StrLess(a[1], b[1])
    \/ a[1] = b[1] /\ Len(a) = 2 /\ StrLess(a[2], b[2])

\* the derived column plan_type, or the first exception df.apply meets
PlanTypeColumn(d) ==
    LET pt == [i \in 1..Len(d.rows) |->
                  identify_plan_type(RowGet(d.columns, d.rows[i], "contract_number", ""),
                                     RowGet(d.columns, d.rows[i], "plan_name", ""),
                                     RowGet(d.columns, d.rows[i], "org_type", ""))]
    IN  IF \E i \in 1..Len(pt) : ~pt[i].ok
        THEN pt[CHOOSE i \in 1..Len(pt) : ~pt[i].ok /\ \A j \in 1..(i - 1) : pt[j].ok]
        ELSE Returned([i \in 1..Len(pt) |-> pt[i].value])

\* The Snapshot, given the plan_type column.  metadata.processed_date, the
\* wall-clock time of the run, is left out: nothing reads it.  groupby drops
\* the rows whose key is missing and yields the groups in sorted key order; a
\* group of the single key ['state'] is taken with its scalar key, as the
\* else-branch of the loop expects.
Snapshot(d, plan_type) ==
    LET rows == 1..Len(d.rows)
        Col(c, default) == [i \in rows |-> RowGet(d.columns, d.rows[i], c, default)]
        contract_number == Col("contract_number", "")
        state == Col("state", NaN)
        enrollment == Col("enrollment", 0)
        parent_org == IF HasColumn(d.columns, "organization") THEN Col("organization", NaN)
                      ELSE [i \in rows |-> get_parent_org(contract_number[i], "")]
        fips == Col("fips", "")
        has_county == HasColumn(d.columns, "county")
        county == Col("county", "Unknown")
        keys == IF has_county
                THEN {<<state[i], county[i]>> : i \in {i \in rows : state[i] # NaN /\ county[i] # NaN}}
                ELSE {<<state[i]>> : i \in {i \in rows : state[i] # NaN}}
        Group(k) == {i \in rows : state[i] = k[1] /\ (has_county => county[i] = k[2])}
        county_key(k) == IF has_county
                         THEN StrLower(StrReplace(k[1] \o "_" \o k[2], " ", "_"))
                         ELSE k[1] \o "_unknown"
        fips_of(k) == LET first == FirstValid(Group(k), fips)
                      IN  IF first # NaN /\ Truthy(first) THEN first ELSE county_key(k)
        county_data(k) ==
            [state |-> k[1],
             county |-> IF has_county THEN k[2] ELSE "Unknown",
             fips |-> fips_of(k),
             total |-> SumSet(Group(k), enrollment),
             by_org |-> GroupSum(Group(k), parent_org, enrollment),
             by_plan_type |-> GroupSum(Group(k), plan_type, enrollment),
             contracts |-> GroupSum(Group(k), contract_number, enrollment)]
        \* result['counties'][fips] = county_data, group after group in key order
        last_with(f) == CHOOSE k \in keys :
                            /\ fips_of(k) = f
                            /\ \A h \in keys : fips_of(h) = f /\ h # k => KeyLess(h, k)
        contracts == {contract_number[i] : i \in {i \in rows : contract_number[i] # NaN}}
        Of(c) == {i \in rows : contract_number[i] = c}
    IN  [metadata |-> [record_count |-> Len(d.rows),
                       total_enrollment |-> SumSet(rows, enrollment)],
         counties |-> [f \in {fips_of(k) : k \in keys} |-> county_data(last_with(f))],
         by_org |-> GroupSum(rows, parent_org, enrollment),
         by_plan_type |-> GroupSum(rows, plan_type, enrollment),
         by_state |-> GroupSum(rows, state, enrollment),
         contracts |-> [c \in contracts |->
                           [enrollment |-> SumSet(Of(c), enrollment),
                            parent_org |-> FirstValid(Of(c), parent_org),
                            organization |-> FirstValid(Of(c), parent_org),
                            plan_type |-> Mode(InOrder(Of(c), plan_type))]]]

aggregate_enrollment(d) ==
    LET plan_type == PlanTypeColumn(d)
    IN  IF ~plan_type.ok THEN plan_type ELSE Returned(Snapshot(d, plan_type.value))

-----------------------------------------------------------------------------
(* calculate_changes *)

\* round(num / den * 100, 2) for den > 0, in hundredths of a percent: the ratio
\* rounded to the nearest hundredth, an exact half going to the even neighbour
\* (the float error of the division is not modelled)
RoundPct(num, den) ==
    LET x == num * 10000
        q == x \div den
        r == x % den
    IN  IF 2 * r < den THEN q
        ELSE IF 2 * r > den THEN q + 1
        ELSE IF q % 2 = 0 THEN q ELSE q + 1

\* one entry of the ChangeSet (change_pct in hundredths of a percent)
ChangeEntry(curr_total, dec_total) ==
    [current |-> curr_total,
     december |-> dec_total,
     change |-> curr_total - dec_total,
     change_pct |-> IF dec_total > 0 THEN RoundPct(curr_total - dec_total, dec_total) ELSE 0]

\* december[...].get(key, 0) taken as a miss for every key
DictGet_miss(dict, key, default) == default

\* dict.get(key, default)
DictGet(dict, key, default) == IF key \in DOMAIN dict THEN dict[key] ELSE default

calculate_changes(current, december) ==
    [counties |-> [f \in DOMAIN current.counties |->
                      ChangeEntry(current.counties[f].total,
                                  DictGet(december.counties, f, [total |-> 0]).total)],
     by_org |-> [o \in DOMAIN current.by_org |->
                    ChangeEntry(current.by_org[o], DictGet(december.by_org, o, 0))],
     by_state |-> [s \in DOMAIN current.by_state |->
                      ChangeEntry(current.by_state[s], DictGet(december.by_state, s, 0))],
     summary |-> [total_current |-> current.metadata.total_enrollment,
                  total_december |-> december.metadata.total_enrollment,
                  total_change |-> current.metadata.total_enrollment
                                     - december.metadata.total_enrollment,
                  total_change_pct |->
                      IF december.metadata.total_enrollment > 0
                      THEN RoundPct(current.metadata.total_enrollment
                                       - december.metadata.total_enrollment,
                                    december.metadata.total_enrollment)
                      ELSE 0]]

-----------------------------------------------------------------------------
(* Bounds and input domains of the function specifications. *)

MaxNameParts == 2
MaxCellLen == 3

RECURSIVE Texts(_, _)
\* the texts made of at most n pieces
Texts(pieces, n) ==
    IF n = 0 THEN {""}
    ELSE LET shorter == Texts(pieces, n - 1)
         IN  shorter \cup {t \o p : t \in shorter, p \in pieces}

ContractIds == {"", "H1234", "h1234", "H", "R5826", "r5826", "S1234", "E0001", "9"}
PlanNameParts == {"Sample ", "Plan", "PPO", "ppo", "pP", "O", "Dual", "DU", "AL",
                  "DSNP", "d-S", "NP", " Eligible"}
PlanNames == Texts(PlanNameParts, MaxNameParts)
OrgTypes == {"", "Dual Eligible SNP", "HMO", "Local PPO", "D-snp", "dual-Eligible",
             "Chronic or Disabling Condition"}

CellChars == {"0", "1", "2", ",", "*", "-", "."}
Cells == Texts(CellChars, MaxCellLen) \cup {NaN, "1,234", "12,345", "-1,000", "1,2.5"}

\* the sequences of 1..n elements of S
SeqsUpTo(S, n) == UNION {[1..k -> S] : k \in 1..n}

\* the variables a function specification does not use
RunUnused ==
    /\ args = NoData /\ csv = NoData /\ contract_info = NoFile /\ df = NoData
    /\ enrollment_data = NoData /\ december_data = NoData /\ changes = NoData
    /\ error = NoError /\ files = NoData /\ files0 = NoData

RunUnchanged ==
    UNCHANGED <<args, csv, contract_info, df, enrollment_data, december_data,
                changes, error, files, files0>>

-----------------------------------------------------------------------------
(* identify_plan_type as a function of its three arguments. *)

InitClassify ==
    /\ pc = "call"
    /\ call \in [fn : {"identify_plan_type"}, contract_id : ContractIds,
                 plan_name : PlanNames, org_type : OrgTypes]
    /\ ret = NoData
    /\ RunUnused

CallIdentifyPlanType ==
    /\ pc = "call"
    /\ call.fn = "identify_plan_type"
    /\ ret' = identify_plan_type(call.contract_id, call.plan_name, call.org_type)
    /\ pc' = "returned"
    /\ UNCHANGED call
    /\ RunUnchanged

NextClassify == CallIdentifyPlanType

SpecClassify == InitClassify /\ [][NextClassify]_vars

\* text contains keyword kw, whatever the case of its letters
ContainsAnyCase(text, kw) ==
    \E i \in 1..(Len(text) - Len(kw) + 1) :
        StrLower(SubSeq(text, i, i + Len(kw) - 1)) = kw

DualEligibleKeywords == {"dsnp", "dual", "d-snp", "dual eligible", "dual-eligible"}

MentionsDualEligible(text) == \E kw \in DualEligibleKeywords : ContainsAnyCase(text, kw)

Classified == pc = "returned" /\ call.fn = "identify_plan_type"

\* C3: identify_plan_type returns Other for an empty contract id whatever the
\* names say; otherwise DSNP when plan_name or org_type mentions a dual-eligible
\* keyword in any case; otherwise PPO for prefix H with "ppo" in the plan name,
\* HMO for prefix H without, PPO for prefix R and Other for any other prefix,
\* the prefix being the upper-cased first character.  The result is always one
\* of HMO, PPO, DSNP, Other.
C3_PlanTypeRule ==
    Classified =>
        LET prefix == UpperChar(CharAt(call.contract_id, 1))
            dual == MentionsDualEligible(call.plan_name) \/ MentionsDualEligible(call.org_type)
        IN  /\ ret.ok
            /\ ret.value \in PlanTypes
            /\ call.contract_id = "" => ret.value = "Other"
            /\ call.contract_id # "" /\ dual => ret.value = "DSNP"
            /\ call.contract_id # "" /\ ~dual /\ prefix = "H"
                  => ret.value = IF ContainsAnyCase(call.plan_name, "ppo") THEN "PPO" ELSE "HMO"
            /\ call.contract_id # "" /\ ~dual /\ prefix = "R" => ret.value = "PPO"
            /\ call.contract_id # "" /\ ~dual /\ prefix \notin {"H", "R"} => ret.value = "Other"

\* an empty contract id with a dual-eligible plan name was classified Other
C3_Witness ==
    /\ Classified
    /\ call.contract_id = ""
    /\ MentionsDualEligible(call.plan_name)
    /\ ret = Returned("Other")

-----------------------------------------------------------------------------
(* The enrollment coercion as a function of one cell. *)

InitCoerce ==
    /\ pc = "call"
    /\ call \in [fn : {"coerce_enrollment"}, cell : Cells]
    /\ ret = NoData
    /\ RunUnused

CallCoerceEnrollment ==
    /\ pc = "call"
    /\ call.fn = "coerce_enrollment"
    /\ ret' = Returned(CoerceEnrollment(call.cell))
    /\ pc' = "returned"
    /\ UNCHANGED call
    /\ RunUnchanged

NextCoerce == CallCoerceEnrollment

SpecCoerce == InitCoerce /\ [][NextCoerce]_vars

Coerced == pc = "returned" /\ call.fn = "coerce_enrollment"

\* C5: after the coercion every enrollment value is a non-negative integer:
\* "1,234" gives 1234, "*" and other non-numeric text give 0, a missing cell
\* gives 0, and no cell gives a value below 0.
C5_NonNegative ==
    Coerced =>
        /\ ret.value \in Nat
        /\ call.cell = "1,234" => ret.value = 1234
        /\ call.cell \in {"*", NaN} => ret.value = 0

-----------------------------------------------------------------------------
(* get_parent_org as a function of its two arguments. *)

\* every prefix of the static table, and three it does not define
OrgPrefixes ==
    {PARENT_ORG_ENTRIES[k][1] : k \in 1..Len(PARENT_ORG_ENTRIES)}
        \cup {"H9999", "h0028", "S1234"}
OrgContractIds == {p \o s : p \in OrgPrefixes, s \in {"", "-001"}} \cup {"", "H002"}
OrgNames == {"", "UnitedHealthcare", "Anthem Blue Cross", "Acme Health"}

InitOrg ==
    /\ pc = "call"
    /\ call \in [fn : {"get_parent_org"}, contract_id : OrgContractIds, org_name : OrgNames]
    /\ ret = NoData
    /\ RunUnused

CallGetParentOrg ==
    /\ pc = "call"
    /\ call.fn = "get_parent_org"
    /\ ret' = Returned(get_parent_org(call.contract_id, call.org_name))
    /\ pc' = "returned"
    /\ UNCHANGED call
    /\ RunUnchanged

NextOrg == CallGetParentOrg

SpecOrg == InitOrg /\ [][NextOrg]_vars

Resolved == pc = "returned" /\ call.fn = "get_parent_org"

\* the positions of the static table that define the prefix
DefinitionsOf(prefix) ==
    {k \in 1..Len(PARENT_ORG_ENTRIES) : PARENT_ORG_ENTRIES[k][1] = prefix}

\* the organizations get_parent_org can name
OrgNamesKnown ==
    {PARENT_ORG_ENTRIES[k][2] : k \in 1..Len(PARENT_ORG_ENTRIES)} \cup {"Other"}

\* the prefixes the static table defines more than once, with the
\* organization of their last definition
LastDefined ==
    [prefix \in {"H0028", "R5826", "H5521", "H0354", "H0169"} |->
        CASE prefix \in {"H0028", "R5826"} -> "Humana"
          [] prefix = "H5521" -> "CVS Health (Aetna)"
          [] prefix = "H0354" -> "Cigna"
          [] prefix = "H0169" -> "Molina Healthcare"]

\* C14: a contract number whose 5-character prefix is defined more than once
\* in the static table resolves to the organization of the last definition
\* and to none of the earlier ones: H0028 and R5826 to Humana, H5521 to CVS
\* Health (Aetna), H0354 to Cigna, H0169 to Molina Healthcare; the caller gets
\* the organization name alone, with no sign of the ambiguity.
C14_LastDefinitionWins ==
    Resolved /\ Len(call.contract_id) >= 5 =>
        LET prefix == SubSeq(call.contract_id, 1, 5)
            defs == DefinitionsOf(prefix)
            last == CHOOSE k \in defs : \A j \in defs : j <= k
        IN  /\ Cardinality(defs) > 1 <=> prefix \in DOMAIN LastDefined
            /\ Cardinality(defs) > 1 =>
                  /\ ret.ok
                  /\ ret.value \in OrgNamesKnown
                  /\ ret.value = PARENT_ORG_ENTRIES[last][2]
                  /\ ret.value = LastDefined[prefix]
                  /\ \A k \in defs \ {last} : ret.value # PARENT_ORG_ENTRIES[k][2]

\* H0028-001 of an organization named UnitedHealthcare resolved to Humana
C14_Witness ==
    /\ Resolved
    /\ call.contract_id = "H0028-001"
    /\ call.org_name = "UnitedHealthcare"
    /\ PARENT_ORG_ENTRIES[1] = <<"H0028", "UnitedHealth Group">>
    /\ ret = Returned("Humana")

-----------------------------------------------------------------------------
(* The column renaming of process_csv as a function of the column names. *)

MaxColumns == 3

\* column names of releases; no two standardize to the same name
RawColumnNames ==
    {"Organization Name", "organization", "Org Name", "Parent Organization",
     "Organization Type", "org_type", "Contract ID", "State", "Enrollment",
     "Extra Column"}

\* the headers of 1..n different columns
Headers(n) ==
    {h \in SeqsUpTo(RawColumnNames, n) : \A i, j \in 1..Len(h) : i # j => h[i] # h[j]}

InitNormalize ==
    /\ pc = "call"
    /\ call \in [fn : {"rename_columns"}, columns : Headers(MaxColumns)]
    /\ ret = NoData
    /\ RunUnused

\* df.columns = ...; renamed = {...}; df = df.rename(columns=renamed)
CallRenameColumns ==
    /\ pc = "call"
    /\ call.fn = "rename_columns"
    /\ ret' = Returned(RenameColumns(StandardizeColumns(call.columns)))
    /\ pc' = "returned"
    /\ UNCHANGED call
    /\ RunUnchanged

NextNormalize == CallRenameColumns

SpecNormalize == InitNormalize /\ [][NextNormalize]_vars

Normalized == pc = "returned" /\ call.fn = "rename_columns"

CanonicalFields == {column_mappings[k][1] : k \in 1..Len(column_mappings)}

\* the synonym chosen for each canonical field that has one among the names
ChosenSynonyms(names) ==
    {FirstPresent(column_mappings[k][2], names) : k \in 1..Len(column_mappings)} \ {""}

\* columns that match no chosen synonym keep their name
UnmatchedKept ==
    Normalized =>
        LET names == StandardizeColumns(call.columns)
        IN  /\ Len(ret.value) = Len(names)
            /\ \A j \in 1..Len(names) :
                  names[j] \notin ChosenSynonyms(names) => ret.value[j] = names[j]

\* C15: after the synonym renaming each canonical field name labels at most
\* one column of the normalized table, also when the input has both a
\* higher-priority synonym and a column that already carries the canonical
\* name; columns that match no chosen synonym keep their name.
C15_CanonicalLabelsUnique ==
    /\ UnmatchedKept
    /\ Normalized =>
          \A c \in CanonicalFields :
              Cardinality({j \in 1..Len(ret.value) : ret.value[j] = c}) <= 1

-----------------------------------------------------------------------------
(* main: one run of the script after another over the same output directory. *)

FileNames == {"enrollment-current.json", "enrollment-december.json",
              "enrollment-changes.json", "contracts.json"}

EmptyDir == [f \in FileNames |-> NoFile]

\* save_json(data, output_dir / name)
save_json(dir, name, data) == [dir EXCEPT ![name] = data]

MaxRows == 2

\* The cells of one input row, by the field its column is meant to carry.
Rec(c, s, co, f, e, o, p, t) ==
    [contract_number |-> c, state |-> s, county |-> co, fips |-> f, enrollment |-> e,
     organization |-> o, plan_name |-> p, org_type |-> t]

RecTied1 == Rec("H0028", "CA", "Los Angeles", "06037", "150", "Humana Insurance", "Sample PPO Plan", "Local CCP")
RecTied2 == Rec("H0028", "CA", "Los Angeles", NaN, "1,234", "Humana Insurance", "Sample Plan", "Local CCP")
RecMasked == Rec("H9999", "NY", "Kings", "36047", "*", "Acme Health", "Gold Plan", "Local CCP")
RecNoState == Rec("H9999", NaN, "Kings", "36047", "7", "Acme Health", "Gold Plan", "Local CCP")
RecNoCounty == Rec("R5826", "NY", NaN, "36047", "5", "Humana Insurance", "Dual Care", "Regional CCP")
RecSameFips == Rec("S1234", "NY", "Queens", "36047", "3", "Acme Health", "Rx Basic", "PDP")
RecSameSlug == Rec("H0028", "CA", "los_angeles", NaN, "2", "Humana Insurance", "Dual-Eligible Plan", "Local CCP")
RecNegative == Rec("R5826", "TX", "Bexar", "48029", "-5", "Humana Insurance", "Regional ppo", "Regional CCP")
RecNoPlanName == Rec("H1234", "CA", "Kern", "06029", "4", "Acme Health", NaN, "Local CCP")
RecNoContract == Rec(NaN, "TX", "Bexar", "48029", "1", "Acme Health", "Gold Plan", "Local CCP")
RecNoOrg == Rec("H1234", "TX", "Bexar", "48030", "6", NaN, "Sample Plan", "Local CCP")

AggRecords == {RecTied1, RecTied2, RecMasked, RecNoState, RecNoCounty, RecSameFips,
               RecSameSlug, RecNegative, RecNoPlanName, RecNoContract, RecNoOrg}

\* Headers: the raw column names of a release and the field each carries.
HeaderFull == <<
    <<"Contract Number", "contract_number">>,
    <<"State", "state">>, <<"County", "county">>,
    <<"FIPS State County Code", "fips">>, <<"Enrollment", "enrollment">>,
    <<"Organization Name", "organization">>, <<"Plan Name", "plan_name">>,
    <<"Organization Type", "org_type">> >>
HeaderNoOrg == <<
    <<"Contract ID", "contract_number">>, <<" state", "state">>,
    <<"County Name", "county">>, <<"FIPS", "fips">>, <<"Enrolled", "enrollment">>,
    <<"PBP Name", "plan_name">> >>
HeaderNoFips == <<
    <<"contractid", "contract_number">>, <<"Bene State", "state">>,
    <<"bene_county", "county">>, <<"Member Count", "enrollment">>,
    <<"Parent Organization", "organization">> >>
HeaderNoCounty == <<
    <<"H Number", "contract_number">>, <<"STATE_CODE", "state">>,
    <<"ENROLLEES ", "enrollment">>, <<"SSA Code", "fips">> >>
HeaderNoState == <<
    <<"Contract Number", "contract_number">>, <<"County", "county">>,
    <<"Enrollment", "enrollment">> >>
HeaderNoEnrollment == <<
    <<"Contract Number", "contract_number">>, <<"State", "state">>,
    <<"Enrollment Count", "enrollment">> >>
HeaderOnlyState == <<
    <<"Contract", "contract_number">>, <<"State", "state">>,
    <<"Total", "enrollment">> >>
HeaderNoneRequired == <<
    <<"Contract No", "contract_number">>, <<"St", "state">>, <<"County", "county">> >>

GoodHeaders == {HeaderFull, HeaderNoOrg, HeaderNoFips, HeaderNoCounty}
BadHeaders == {HeaderNoState, HeaderNoEnrollment, HeaderOnlyState, HeaderNoneRequired}

\* the table read_csv returns for the header and the rows
MakeTable(header, recs) ==
    [columns |-> [j \in 1..Len(header) |-> header[j][1]],
     rows |-> [i \in 1..Len(recs) |-> [j \in 1..Len(header) |-> recs[i][header[j][2]]]]]

\* Contract-info tables.
InfoOverride == [columns |-> <<"Contract Number", "Parent Organization">>,
                 rows |-> << <<"H0028", "Acme Health">>, <<"H9999", "Old Name">>,
                             <<"H9999", "Beta Care">>, <<NaN, "Nobody">>,
                             <<"S1234", NaN>> >>]
InfoNoColumns == [columns |-> <<"Contract", "Name">>, rows |-> << <<"H0028", "Acme Health">> >>]
ContractInfos == {NoFile, InfoOverride, InfoNoColumns}

\* The inputs of the runs of main.
MainHeaders == {HeaderFull, HeaderNoOrg, HeaderNoState, HeaderNoneRequired}
MainRecords == {RecTied1, RecMasked, RecNegative, RecNoPlanName}
MainInfos == {NoFile, InfoOverride}

RunInit ==
    /\ call = NoCall /\ ret = NoData
    /\ df = NoData /\ enrollment_data = NoData /\ december_data = NoData
    /\ changes = NoData /\ error = NoError

StartRun ==
    /\ pc \in {"idle", "done", "failed"}
    /\ \E save \in BOOLEAN : args' = [save_december |-> save]
    /\ \E h \in MainHeaders : \E r \in MainRecords : csv' = MakeTable(h, <<r>>)
    /\ contract_info' \in MainInfos
    /\ df' = NoData /\ enrollment_data' = NoData /\ december_data' = NoData
    /\ changes' = NoData /\ error' = NoError
    /\ files0' = files
    /\ pc' = "process_csv"
    /\ UNCHANGED <<call, ret, files>>

\* df = process_csv(csv_path)
ProcessCsv ==
    /\ pc = "process_csv"
    /\ LET r == process_csv(csv, contract_info)
       IN  IF r.ok
           THEN df' = r.value /\ pc' = "aggregate" /\ UNCHANGED error
           ELSE error' = r.value /\ pc' = "failed" /\ UNCHANGED df
    /\ UNCHANGED <<call, ret, args, csv, contract_info, enrollment_data,
                   december_data, changes, files, files0>>

\* enrollment_data = aggregate_enrollment(df)
Aggregate ==
    /\ pc = "aggregate"
    /\ LET r == aggregate_enrollment(df)
       IN  IF r.ok
           THEN enrollment_data' = r.value /\ pc' = "save_current" /\ UNCHANGED error
           ELSE error' = [kind |-> r.value] /\ pc' = "failed" /\ UNCHANGED enrollment_data
    /\ UNCHANGED <<call, ret, args, csv, contract_info, df,
                   december_data, changes, files, files0>>

SaveCurrent ==
    /\ pc = "save_current"
    /\ args # NoData
    /\ files' = save_json(files, "enrollment-current.json", enrollment_data)
    /\ pc' = "save_december"
    /\ UNCHANGED <<call, ret, args, csv, contract_info, df, enrollment_data,
                   december_data, changes, error, files0>>

\* the baseline written by every run, requested or not
SaveDecember_always ==
    /\ pc = "save_december"
    /\ files' = save_json(files, "enrollment-december.json", enrollment_data)
    /\ pc' = "changes"
    /\ UNCHANGED <<call, ret, args, csv, contract_info, df, enrollment_data,
                   december_data, changes, error, files0>>

\* if args.save_december: save_json(enrollment_data, december_path)
SaveDecember ==
    /\ pc = "save_december"
    /\ files' = IF args.save_december
                THEN save_json(files, "enrollment-december.json", enrollment_data)
                ELSE files
    /\ pc' = "changes"
    /\ UNCHANGED <<call, ret, args, csv, contract_info, df, enrollment_data,
                   december_data, changes, error, files0>>

\* the ChangeSet computed only when the baseline was there before the run
Changes_from_start ==
    /\ pc = "changes"
    /\ IF files0["enrollment-december.json"] # NoFile
       THEN /\ december_data' = files["enrollment-december.json"]
            /\ changes' = calculate_changes(enrollment_data, december_data')
            /\ files' = save_json(files, "enrollment-changes.json", changes')
       ELSE UNCHANGED <<december_data, changes, files>>
    /\ pc' = "save_contracts"
    /\ UNCHANGED <<call, ret, args, csv, contract_info, df, enrollment_data,
                   error, files0>>

\* if december_path.exists(): json.load it, calculate_changes, save the
\* ChangeSet.  json.dump followed by json.load gives back an equal value: the
\* keys of a Snapshot are str, its numbers are int (each sum goes through
\* int()), and a missing parent_org is written and read back as NaN.
Changes ==
    /\ pc = "changes"
    /\ IF files["enrollment-december.json"] # NoFile
       THEN /\ december_data' = files["enrollment-december.json"]
            /\ changes' = calculate_changes(enrollment_data, december_data')
            /\ files' = save_json(files, "enrollment-changes.json", changes')
       ELSE UNCHANGED <<december_data, changes, files>>
    /\ pc' = "save_contracts"
    /\ UNCHANGED <<call, ret, args, csv, contract_info, df, enrollment_data,
                   error, files0>>

SaveContracts ==
    /\ pc = "save_contracts"
    /\ files' = save_json(files, "contracts.json", enrollment_data.contracts)
    /\ pc' = "done"
    /\ UNCHANGED <<call, ret, args, csv, contract_info, df, enrollment_data,
                   december_data, changes, error, files0>>

Init ==
    /\ pc = "idle"
    /\ args = NoData /\ csv = NoData /\ contract_info = NoFile
    /\ files = EmptyDir /\ files0 = EmptyDir
    /\ RunInit

Next ==
    \/ StartRun
    \/ ProcessCsv
    \/ Aggregate
    \/ SaveCurrent
    \/ SaveDecember
    \/ Changes
    \/ SaveContracts

Spec == Init /\ [][Next]_vars

-----------------------------------------------------------------------------
(* process_csv and aggregate_enrollment over tables of up to MaxRows rows. *)

InitAgg ==
    /\ pc = "process_csv"
    /\ args = NoData
    /\ \E h \in GoodHeaders \cup BadHeaders : \E recs \in SeqsUpTo(AggRecords, MaxRows) :
          csv = MakeTable(h, recs)
    /\ contract_info \in ContractInfos
    /\ files = EmptyDir /\ files0 = EmptyDir
    /\ RunInit

NextAgg == ProcessCsv \/ Aggregate

SpecAgg == InitAgg /\ [][NextAgg]_vars

\* sum(d.values())
SumValues(d) == SumSet(DOMAIN d, d)

Aggregated == pc = "save_current" /\ enrollment_data # NoData

\* C1: for every table that passes normalization the Snapshot satisfies
\* sum(by_state) = metadata.total_enrollment = sum(by_org) = sum(by_plan_type),
\* total_enrollment being the sum of the coerced enrollment column, also for
\* rows whose state or organization cell is missing.
C1_TotalsAgree ==
    Aggregated =>
        LET total == SumSet(1..Len(df.rows),
                            [i \in 1..Len(df.rows) |->
                                df.rows[i][ColIndex(df.columns, "enrollment")]])
        IN  /\ enrollment_data.metadata.total_enrollment = total
            /\ SumValues(enrollment_data.by_state) = total
            /\ SumValues(enrollment_data.by_org) = total
            /\ SumValues(enrollment_data.by_plan_type) = total

\* C2: for every table that passes normalization the totals of the entries of
\* Snapshot.counties add up to metadata.total_enrollment, whatever FIPS and
\* county values the rows carry.
C2_CountyTotalsAgree ==
    Aggregated =>
        SumSet(DOMAIN enrollment_data.counties,
               [f \in DOMAIN enrollment_data.counties |-> enrollment_data.counties[f].total])
          = enrollment_data.metadata.total_enrollment

\* the contract-info lookup table of the run
OrgLookup == load_contract_info(contract_info)

\* the raw table has no column that the normalizer names `organization`
NoOrganizationColumn ==
    \A j \in 1..Len(csv.columns) :
        StandardizeColumns(csv.columns)[j] \notin
            {"organization_name", "org_name", "organization", "plan_org_name",
             "parent_organization"}

Processed == pc \in {"aggregate", "save_current"} /\ df # NoData

\* C4: in a table without an organization column every record whose full
\* contract number is a key of the contract-info lookup gets the lookup value
\* as its organization, even when its first 5 characters are a key of the
\* static prefix map; the static map decides only for the other contracts.
C4_LookupOverridesStatic ==
    Processed /\ NoOrganizationColumn =>
        \A i \in 1..Len(df.rows) :
            LET contract == df.rows[i][ColIndex(df.columns, "contract_number")]
                organization == df.rows[i][ColIndex(df.columns, "organization")]
                base == SubSeq(contract, 1, 5)
            IN  /\ contract # NaN /\ contract \in DOMAIN OrgLookup
                      => /\ organization = OrgLookup[contract]
                         /\ Aggregated =>
                               enrollment_data.contracts[contract].parent_org
                                 = OrgLookup[contract]
                /\ contract # NaN /\ contract \notin DOMAIN OrgLookup
                      /\ (\E k \in 1..Len(PARENT_ORG_ENTRIES) : PARENT_ORG_ENTRIES[k][1] = base)
                      => \E k \in 1..Len(PARENT_ORG_ENTRIES) :
                            PARENT_ORG_ENTRIES[k] = <<base, organization>>

\* a contract of the lookup whose prefix the static map knows under another
\* name was given the lookup's name
C4_Witness ==
    /\ Processed /\ NoOrganizationColumn
    /\ \E i \in 1..Len(df.rows) :
          LET contract == df.rows[i][ColIndex(df.columns, "contract_number")]
          IN  /\ contract # NaN /\ contract \in DOMAIN OrgLookup
              /\ SubSeq(contract, 1, 5) \in DOMAIN PARENT_ORG_MAPPING
              /\ PARENT_ORG_MAPPING[SubSeq(contract, 1, 5)] # OrgLookup[contract]
              /\ df.rows[i][ColIndex(df.columns, "organization")] = OrgLookup[contract]

\* C9: once the table has passed normalization, aggregate_enrollment returns a
\* Snapshot without raising, also for rows whose contract_number, plan_name,
\* org_type, county or organization cell is missing.
C9_AggregationCannotFail == df # NoData => pc # "failed"

\* the plan types of the records of contract c, in table order
PlanTypesOf(c) ==
    LET rows == {i \in 1..Len(df.rows) :
                    df.rows[i][ColIndex(df.columns, "contract_number")] = c}
        type == [i \in 1..Len(df.rows) |->
                    identify_plan_type(RowGet(df.columns, df.rows[i], "contract_number", ""),
                                       RowGet(df.columns, df.rows[i], "plan_name", ""),
                                       RowGet(df.columns, df.rows[i], "org_type", "")).value]
    IN  InOrder(rows, type)

Occurrences(types, t) == Cardinality({i \in 1..Len(types) : types[i] = t})

MostFrequent(types) ==
    {types[i] : i \in {i \in 1..Len(types) :
        \A j \in 1..Len(types) : Occurrences(types, types[j]) <= Occurrences(types, types[i])}}

FirstOccurrence(types, t) == CHOOSE i \in 1..Len(types) : types[i] = t /\ \A j \in 1..(i - 1) : types[j] # t

\* C10 as stated: contracts[c].plan_type is the most frequent plan type of the
\* records of contract c and, among equally frequent ones, the one that
\* occurs first in table order.
C10_FirstEncounteredTie ==
    Aggregated =>
        \A c \in DOMAIN enrollment_data.contracts :
            LET types == PlanTypesOf(c)
                chosen == enrollment_data.contracts[c].plan_type
            IN  /\ chosen \in MostFrequent(types)
                /\ \A t \in MostFrequent(types) :
                      FirstOccurrence(types, chosen) <= FirstOccurrence(types, t)

\* C10 as amended: contracts[c].plan_type is the most frequent plan type of the
\* records of contract c and, among equally frequent ones, the one that sorts
\* first as text (DSNP < HMO < Other < PPO), whatever the table order.
C10_SmallestTie ==
    Aggregated =>
        \A c \in DOMAIN enrollment_data.contracts :
            LET types == PlanTypesOf(c)
                chosen == enrollment_data.contracts[c].plan_type
            IN  /\ chosen \in MostFrequent(types)
                /\ \A t \in MostFrequent(types) : t = chosen \/ StrLess(chosen, t)

\* a contract with equally frequent plan types whose first record carries
\* another type than the one chosen
C10_Witness ==
    /\ Aggregated
    /\ \E c \in DOMAIN enrollment_data.contracts :
          /\ Cardinality(MostFrequent(PlanTypesOf(c))) > 1
          /\ PlanTypesOf(c)[1] \in MostFrequent(PlanTypesOf(c))
          /\ PlanTypesOf(c)[1] # enrollment_data.contracts[c].plan_type

\* the (state, county) groups of the normalized table: the pairs carried by
\* the rows that have both cells
CountyGroups ==
    {<<RowGet(df.columns, df.rows[i], "state", NaN),
       RowGet(df.columns, df.rows[i], "county", NaN)>> :
        i \in {i \in 1..Len(df.rows) :
                  /\ RowGet(df.columns, df.rows[i], "state", NaN) # NaN
                  /\ RowGet(df.columns, df.rows[i], "county", NaN) # NaN}}

\* the records of group g
Members(g) ==
    {i \in 1..Len(df.rows) :
        /\ RowGet(df.columns, df.rows[i], "state", NaN) = g[1]
        /\ RowGet(df.columns, df.rows[i], "county", NaN) = g[2]}

\* record i carries a FIPS value: its cell is neither missing nor the empty text
HasFips(i) == RowGet(df.columns, df.rows[i], "fips", NaN) \notin {NaN, ""}

\* state_county, lower-cased, with underscores for spaces
Slug(g) == StrReplace(StrLower(g[1]) \o "_" \o StrLower(g[2]), " ", "_")

\* the key the group is expected under
ExpectedKey(g) ==
    IF \E i \in Members(g) : HasFips(i)
    THEN LET first == CHOOSE i \in Members(g) :
                          HasFips(i) /\ \A j \in Members(g) : j < i => ~HasFips(j)
         IN  RowGet(df.columns, df.rows[first], "fips", NaN)
    ELSE Slug(g)

\* C11: every (state, county) group is stored in Snapshot.counties under the
\* first non-empty FIPS value among its records when a record of the group has
\* one (also when an earlier record of the group has none), and under the
\* state_county slug (lower-cased, underscores for spaces) only when no record
\* of the group has one.
C11_CountyKey ==
    Aggregated /\ HasColumn(df.columns, "county") =>
        /\ DOMAIN enrollment_data.counties = {ExpectedKey(g) : g \in CountyGroups}
        /\ \A f \in DOMAIN enrollment_data.counties :
              /\ enrollment_data.counties[f].fips = f
              /\ \E g \in CountyGroups :
                    /\ ExpectedKey(g) = f
                    /\ enrollment_data.counties[f].state = g[1]
                    /\ enrollment_data.counties[f].county = g[2]

\* a group whose first record has no FIPS value and whose second has one is
\* stored under the FIPS value of the second
C11_Witness ==
    /\ Aggregated /\ HasColumn(df.columns, "county")
    /\ \E g \in CountyGroups :
          /\ \E i \in Members(g) : ~HasFips(i) /\ \A j \in Members(g) : i <= j
          /\ \E i \in Members(g) : HasFips(i)
          /\ ExpectedKey(g) # Slug(g)
          /\ ExpectedKey(g) \in DOMAIN enrollment_data.counties
          /\ enrollment_data.counties[ExpectedKey(g)].county = g[2]

\* a group whose records carry two different FIPS values is stored under the
\* one that comes first in the table
C11_FirstOfTwoWitness ==
    /\ Aggregated /\ HasColumn(df.columns, "county")
    /\ \E g \in CountyGroups : \E i, j \in Members(g) :
          /\ i < j /\ HasFips(i) /\ HasFips(j)
          /\ df.rows[i][ColIndex(df.columns, "fips")] # df.rows[j][ColIndex(df.columns, "fips")]
          /\ df.rows[i][ColIndex(df.columns, "fips")] \in DOMAIN enrollment_data.counties
          /\ df.rows[j][ColIndex(df.columns, "fips")] \notin DOMAIN enrollment_data.counties

\* a group none of whose records has a FIPS value is stored under its slug
C11_SlugWitness ==
    /\ Aggregated /\ HasColumn(df.columns, "county")
    /\ \E g \in CountyGroups :
          /\ \A i \in Members(g) : ~HasFips(i)
          /\ Slug(g) \in DOMAIN enrollment_data.counties

-----------------------------------------------------------------------------
(* Claims about the runs of main. *)

\* the raw table has a column for the canonical field: one whose standardized
\* name is a synonym of the field
Synonyms(field) ==
    LET k == CHOOSE k \in 1..Len(column_mappings) : column_mappings[k][1] = field
    IN  {column_mappings[k][2][j] : j \in 1..Len(column_mappings[k][2])}

Lacking ==
    {field \in {"contract_number", "state", "enrollment"} :
        \A j \in 1..Len(csv.columns) :
            StandardizeColumns(csv.columns)[j] \notin Synonyms(field)}

\* C8: when a required field has no matching column, process_csv fails with an
\* error naming exactly the missing required fields, the run aborts and none
\* of the four output files is written or modified by it; when all three are
\* present no schema error is raised.
C8_SchemaErrorAborts ==
    csv # NoData /\ pc # "process_csv" =>
        IF Lacking # {}
        THEN /\ pc = "failed"
             /\ error.kind = "ValueError"
             /\ {error.missing[k] : k \in 1..Len(error.missing)} = Lacking
             /\ Len(error.missing) = Cardinality(Lacking)
             /\ files = files0
        ELSE error.kind # "ValueError"

\* a run over a directory that already held files failed on two missing fields
C8_Witness ==
    /\ pc = "failed"
    /\ error.kind = "ValueError"
    /\ Len(error.missing) >= 2
    /\ files0["enrollment-current.json"] # NoFile
    /\ files0["enrollment-december.json"] # NoFile
    /\ files = files0

changed_dimensions == {"counties", "by_org", "by_state"}

\* the value a dimension of a Snapshot gives a key, 0 when it has no such key
ValueIn(snapshot, dim, key) ==
    IF key \notin DOMAIN snapshot[dim] THEN 0
    ELSE IF dim = "counties" THEN snapshot[dim][key].total
    ELSE snapshot[dim][key]

\* p is num / den * 100 rounded to 2 decimals, in hundredths of a percent
IsRoundedPct(p, num, den) ==
    LET Abs(x) == IF x < 0 THEN 0 - x ELSE x
    IN  2 * Abs(p * den - num * 10000) <= Abs(den)

ChangesWritten == pc \in {"save_contracts", "done"} /\ changes # NoData

\* C6: calculate_changes gives, in each of counties, by_org and by_state, one
\* entry per key of current and none for keys of the baseline alone; the
\* baseline value is the baseline's or 0 when it lacks the key, change is
\* current - baseline, and change_pct is 0 when the baseline value is 0 and
\* change / baseline * 100 rounded to 2 decimals otherwise.
C6_ChangeRule ==
    ChangesWritten =>
        \A dim \in changed_dimensions :
            /\ DOMAIN changes[dim] = DOMAIN enrollment_data[dim]
            /\ \A key \in DOMAIN changes[dim] :
                  LET entry == changes[dim][key]
                      current == ValueIn(enrollment_data, dim, key)
                      baseline == ValueIn(december_data, dim, key)
                  IN  /\ entry.current = current
                      /\ entry.december = baseline
                      /\ entry.change = current - baseline
                      /\ IF baseline = 0 THEN entry.change_pct = 0
                         ELSE IsRoundedPct(entry.change_pct, entry.change, baseline)

\* a run has started: it is under way, has ended or has failed
Running == args # NoData /\ pc # "idle"

BaselineBefore == files0["enrollment-december.json"]
BaselineNow == files["enrollment-december.json"]

\* the entries of the ChangeSet c take their current values from the Snapshot
\* cur and their baseline values from the Snapshot base
ComparedAgainst(c, cur, base) ==
    /\ \A dim \in changed_dimensions :
          /\ DOMAIN c[dim] = DOMAIN cur[dim]
          /\ \A key \in DOMAIN c[dim] :
                /\ c[dim][key].current = ValueIn(cur, dim, key)
                /\ c[dim][key].december = ValueIn(base, dim, key)
    /\ c.summary.total_current = cur.metadata.total_enrollment
    /\ c.summary.total_december = base.metadata.total_enrollment

\* C12: enrollment-december.json is created or overwritten only by a run
\* invoked with --save-december, which stores its own Snapshot; a run without
\* the flag leaves the file as it found it (absent if it was absent) at every
\* step, and the baseline its ChangeSet is computed against is the stored
\* baseline as loaded.
C12_BaselineOnlyOnRequest ==
    Running =>
        /\ ~args.save_december => BaselineNow = BaselineBefore
        /\ args.save_december =>
              BaselineNow = IF pc \in {"changes", "save_contracts", "done"}
                            THEN enrollment_data ELSE BaselineBefore
        /\ ChangesWritten /\ ~args.save_december =>
              /\ BaselineBefore # NoFile
              /\ december_data = BaselineBefore
              /\ ComparedAgainst(changes, enrollment_data, BaselineBefore)

\* a run without the flag ended over a stored baseline that differs from its
\* own Snapshot, and left it in place
C12_Witness ==
    /\ pc = "done" /\ ~args.save_december
    /\ BaselineBefore # NoFile
    /\ BaselineBefore # enrollment_data
    /\ BaselineNow = BaselineBefore
    /\ changes # NoData
    /\ files["enrollment-current.json"] = enrollment_data

\* the stages of a run that come before the baseline check
BeforeChanges == {"process_csv", "aggregate", "save_current", "save_december", "changes"}

\* C13: a successful run writes enrollment-changes.json if and only if the
\* baseline file exists when it is checked: it was there before the run or
\* the run wrote it because of --save-december.  A run with no stored baseline
\* and no flag writes enrollment-current.json and contracts.json and no
\* ChangeSet.  The ChangeSet is written after enrollment-current.json and is
\* computed from the run's Snapshot against the stored baseline.
C13_ChangeSetIffBaseline ==
    Running =>
        /\ pc \in BeforeChanges \/ pc = "failed" =>
              /\ files["enrollment-changes.json"] = files0["enrollment-changes.json"]
              /\ changes = NoData
        /\ pc \in {"save_contracts", "done"} =>
              /\ files["enrollment-current.json"] = enrollment_data
              /\ IF BaselineBefore # NoFile \/ args.save_december
                 THEN /\ changes # NoData
                      /\ files["enrollment-changes.json"] = changes
                      /\ ComparedAgainst(changes, enrollment_data, BaselineNow)
                 ELSE /\ changes = NoData
                      /\ files["enrollment-changes.json"] = files0["enrollment-changes.json"]
        /\ pc = "done" => files["contracts.json"] = enrollment_data.contracts

\* a run with no stored baseline and no flag ended with the current Snapshot
\* and the contracts written and no ChangeSet
C13_Witness ==
    /\ pc = "done" /\ ~args.save_december
    /\ BaselineBefore = NoFile
    /\ files["enrollment-current.json"] = enrollment_data
    /\ files["contracts.json"] = enrollment_data.contracts
    /\ files["enrollment-changes.json"] = NoFile

\* the first --save-december run over an empty directory ended with a
\* ChangeSet of the Snapshot against itself
C13_FreshBaselineWitness ==
    /\ pc = "done" /\ args.save_december
    /\ BaselineBefore = NoFile
    /\ files["enrollment-changes.json"] = changes
    /\ changes # NoData

-----------------------------------------------------------------------------
(* calculate_changes as a function of two Snapshots. *)

DiffRecords == {RecTied1, RecMasked, RecSameFips, RecNegative, RecNoOrg}

DiffSnapshots ==
    {aggregate_enrollment(process_csv(MakeTable(HeaderFull, recs), NoFile).value).value :
        recs \in SeqsUpTo(DiffRecords, MaxRows)}

InitDiff ==
    /\ pc = "call"
    /\ call = [fn |-> "calculate_changes"]
    /\ ret = NoData
    /\ args = NoData /\ csv = NoData /\ contract_info = NoFile /\ df = NoData
    /\ enrollment_data \in DiffSnapshots
    /\ december_data \in DiffSnapshots
    /\ changes = NoData /\ error = NoError /\ files = NoData /\ files0 = NoData

CallCalculateChanges ==
    /\ pc = "call"
    /\ call.fn = "calculate_changes"
    /\ changes' = calculate_changes(enrollment_data, december_data)
    /\ pc' = "returned"
    /\ UNCHANGED <<call, ret, args, csv, contract_info, df, enrollment_data,
                   december_data, error, files, files0>>

NextDiff == CallCalculateChanges

SpecDiff == InitDiff /\ [][NextDiff]_vars

Compared == pc = "returned" /\ call.fn = "calculate_changes"

\* C7: calculate_changes(S, S) gives change = 0 and change_pct = 0 for every
\* key of S in counties, by_org and by_state, also for keys whose value is 0,
\* and total_change = 0 and total_change_pct = 0 in the summary.
C7_SelfDiffIsZero ==
    Compared /\ enrollment_data = december_data =>
        /\ \A dim \in changed_dimensions :
              /\ DOMAIN changes[dim] = DOMAIN enrollment_data[dim]
              /\ \A key \in DOMAIN changes[dim] :
                    changes[dim][key].change = 0 /\ changes[dim][key].change_pct = 0
        /\ changes.summary.total_change = 0
        /\ changes.summary.total_change_pct = 0

\* a Snapshot with a key of value 0 and a key of positive value was compared
\* with itself
C7_Witness ==
    /\ Compared
    /\ enrollment_data = december_data
    /\ \E s \in DOMAIN enrollment_data.by_state : enrollment_data.by_state[s] = 0
    /\ \E s \in DOMAIN enrollment_data.by_state : enrollment_data.by_state[s] > 0
    /\ \E f \in DOMAIN changes.counties : changes.counties[f].current > 0

=============================================================================
